---- MODULE Spec2Model ----
(***************************************************************************)
(* Resource-coordination layer of the service:                             *)
(*   - TokenLock      (src/src/services/token_lock.py)                     *)
(*   - SQLiteAdapter / MySQLAdapter and the global adapter                 *)
(*                    (src/src/core/db_adapter.py)                         *)
(* The program's operations are actions over the program's variables.      *)
(* History variables (what was granted, what the latest call returned)     *)
(* are kept by observers, and each specification runs the operations       *)
(* with the observers its properties read; the others stay at their        *)
(* initial value.                                                          *)
(***************************************************************************)
EXTENDS Integers, FiniteSets, Sequences, TLC

(***************************************************************************)
(* Bounds of the model.                                                    *)
(***************************************************************************)
NumCallers == 2
MaxTime == 2
MaxTimeout == 2

\* token ids are inputs; the table treats each token by itself, and two of
\* them show what a call on one token does to the entry of another
Tokens == {1, 2}
Callers == 1..NumCallers
Timeouts == 1..MaxTimeout
\* ownership tokens: a token's value is only ever compared with the values
\* remembered for the same token (by this manager, the other process and the
\* backend), so three values per token are enough for a fresh one to exist
Values == 1..3

VARIABLES
  \* ---- TokenLock fields (token_lock.py:19-23)
  lock_timeout,     \* self.lock_timeout
  _locks,           \* self._locks: token_id -> lock_timestamp
  _lock_values,     \* self._lock_values: token_id -> lock_value
  _redis_manager,   \* self._redis_manager: "None" or "Mgr"
  \* ---- environment of the manager
  now,              \* time.time()
  backend,          \* what the distributed backend does for this process
  redis,            \* the backend's lock keys: token_id -> [value, expireAt]
  otherValue,       \* ownership tokens held by another process of the service
  \* ---- history variables (not program state)
  grants,           \* successful acquires, neither released nor expired since
  lease,            \* last successful local acquire per token, until released
  owner,            \* the caller that made it
  everLocked,       \* tokens this manager has ever granted
  last              \* the call that made the latest step, and what it returned

VARIABLES
  \* ---- SQLiteAdapter, one call of execute / execute_many per task
  _write_lock,      \* self._write_lock: the task holding it, 0 when free
  pc,               \* where each task is in its call
  method,           \* the call each task makes
  max_retries,      \* its max_retries argument
  attempt,          \* the loop variable of execute
  conn,             \* whether the task's connection is open
  err,              \* the error the call raised
  result,           \* what the call returned
  \* ---- history of the call
  tries,            \* attempts started
  sleeps            \* backoff waits started

VARIABLES
  \* ---- the global adapter and the adapter objects
  db_type,          \* config.db_type
  _adapter,         \* the module global: 0 for None, else the adapter object
  insts,            \* adapter objects: kind, _initialized, _pool; and closed:
                    \* close() was called and initialize() not since (history)
  initializing,     \* adapter objects init_adapter is awaiting initialize() on
  lastCall          \* the latest call on the adapter layer and its outcome

progVars == <<lock_timeout, _locks, _lock_values, _redis_manager, now, backend,
              redis, otherValue>>
lockVars == <<progVars, grants, lease, owner, everLocked, last>>
dbVars == <<_write_lock, pc, method, max_retries, attempt, conn, err, result,
            tries, sleeps>>
adVars == <<db_type, _adapter, insts, initializing, lastCall>>

VARIABLES
  \* ---- the rows of the backing store, as one adapter's callers see them
  table,            \* key -> the value the store holds for it
  written,          \* key -> the value its last successful write was given
                    \* (history)
  lastIo            \* the latest write or read and what it returned (history)

storeVars == <<table, written, lastIo>>

BackendStates == {"import_error", "init_error", "down", "up"}

\* dict helpers
EmptyDict == [x \in {} |-> 0]
Remove(d, k) == [x \in DOMAIN d \ {k} |-> d[x]]
Put(d, k, v) == (k :> v) @@ d
Range(d) == {d[x] : x \in DOMAIN d}

(***************************************************************************)
(* The distributed lock backend (core/redis_manager.py is not among the    *)
(* sources at hand; modelled from the interface in spec.md section 6:      *)
(* acquire(key, scope, ttl) -> ownership_token | none,                     *)
(* release(key, scope, ownership_token), is_held(key, scope)).             *)
(***************************************************************************)
RedisLive(r, t, time) == t \in DOMAIN r /\ time < r[t].expireAt

\* a fresh ownership token for t: one that nobody remembers for t
FreshValue(t) ==
  CHOOSE v \in Values :
    /\ t \in DOMAIN _lock_values => v # _lock_values[t]
    /\ t \in DOMAIN otherValue => v # otherValue[t]

acquire_token_lock(r, t, ttl) ==
  IF RedisLive(r, t, now)
    THEN [value |-> 0, store |-> r]
    ELSE [value |-> FreshValue(t),
          store |-> Put(r, t, [value |-> FreshValue(t), expireAt |-> now + ttl])]

release_token_lock(r, t, value) ==
  IF RedisLive(r, t, now) /\ r[t].value = value THEN Remove(r, t) ELSE r

is_token_locked(r, t) == RedisLive(r, t, now)

\* the backend expires keys on its own
RedisExpire(r, time) == [t \in {x \in DOMAIN r : time < r[x].expireAt} |-> r[t]]

(***************************************************************************)
(* TokenLock                                                               *)
(***************************************************************************)

\* _get_redis_manager with the try/except removed: the failure surfaces.
GetRedisManagerUncaught ==
  IF _redis_manager = "None"
    THEN IF backend \in {"import_error", "init_error"}
           THEN [cache |-> "None", ret |-> "None", raised |-> TRUE]
           ELSE [cache |-> "Mgr", ret |-> "Mgr", raised |-> FALSE]
    ELSE [cache |-> _redis_manager, ret |-> _redis_manager, raised |-> FALSE]

\* _get_redis_manager (token_lock.py:25-35): the manager is looked up and
\* initialized once; any exception leaves self._redis_manager = None, so the
\* next call tries again.
get_redis_manager ==
  IF _redis_manager = "None"
    THEN IF backend \in {"import_error", "init_error"}
           THEN [cache |-> "None", ret |-> "None", raised |-> FALSE]
           ELSE [cache |-> "Mgr", ret |-> "Mgr", raised |-> FALSE]
    ELSE [cache |-> _redis_manager, ret |-> _redis_manager, raised |-> FALSE]

\* redis_mgr.is_connected
is_connected == backend = "up"

\* "redis_mgr and redis_mgr.is_connected" (token_lock.py:49, 113)
UseRedis == get_redis_manager.ret = "Mgr" /\ is_connected

\* the expiry test with >= for >
ExpiredOffByOne(lock_time) == now - lock_time >= lock_timeout

\* current_time - lock_time > self.lock_timeout (token_lock.py:67, 123, 136)
Expired(lock_time) == now - lock_time > lock_timeout

\* local acquire that grants without looking at the table
AcquireLocalNoCheck(t) ==
  [res |-> TRUE, locks |-> Put(_locks, t, now)]

\* local acquire that restarts the lease's time when it refuses
AcquireLocalRefresh(t) ==
  IF t \in DOMAIN _locks /\ ~Expired(_locks[t])
    THEN [res |-> FALSE, locks |-> Put(_locks, t, now)]
    ELSE [res |-> TRUE, locks |-> Put(_locks, t, now)]

\* acquire_lock, local branch (token_lock.py:61-77)
AcquireLocal(t) ==
  IF t \in DOMAIN _locks /\ ~Expired(_locks[t])
    THEN [res |-> FALSE, locks |-> _locks]
    ELSE [res |-> TRUE, locks |-> Put(_locks, t, now)]

\* distributed acquire that forgets the remembered token when it is refused
AcquireRedisForget(t) ==
  LET a == acquire_token_lock(redis, t, lock_timeout)
  IN  IF a.value # 0
        THEN [res |-> TRUE, store |-> a.store, values |-> Put(_lock_values, t, a.value)]
        ELSE [res |-> FALSE, store |-> redis, values |-> Remove(_lock_values, t)]

\* acquire_lock, distributed branch (token_lock.py:51-58)
AcquireRedis(t) ==
  LET a == acquire_token_lock(redis, t, lock_timeout)
  IN  IF a.value # 0
        THEN [res |-> TRUE, store |-> a.store, values |-> Put(_lock_values, t, a.value)]
        ELSE [res |-> FALSE, store |-> redis, values |-> _lock_values]

\* acquire_lock (token_lock.py:37-77)
acquire_lock(t) ==
  /\ _redis_manager' = get_redis_manager.cache
  /\ IF get_redis_manager.raised
       THEN UNCHANGED <<_locks, _lock_values, redis>>
       ELSE IF UseRedis
       THEN /\ redis' = AcquireRedis(t).store
            /\ _lock_values' = AcquireRedis(t).values
            /\ UNCHANGED _locks
       ELSE /\ _locks' = AcquireLocal(t).locks
            /\ UNCHANGED <<_lock_values, redis>>
  /\ UNCHANGED <<lock_timeout, now, backend, otherValue>>

\* a local release that empties the whole table
ReleaseLocalClear(t) == EmptyDict

\* release_lock, local branch (token_lock.py:96-99)
ReleaseLocal(t) ==
  IF t \in DOMAIN _locks THEN Remove(_locks, t) ELSE _locks

\* release_lock, distributed branch (token_lock.py:90-93): the remembered
\* ownership token is popped and presented to the backend.
ReleaseRedis(t) ==
  IF t \in DOMAIN _lock_values
    THEN [store |-> release_token_lock(redis, t, _lock_values[t]),
          values |-> Remove(_lock_values, t)]
    ELSE [store |-> redis, values |-> _lock_values]

\* the branch condition of release_lock (token_lock.py:88)
ReleaseUsesRedis(t) == UseRedis /\ t \in DOMAIN _lock_values

\* release_lock (token_lock.py:79-99)
release_lock(t) ==
  /\ _redis_manager' = get_redis_manager.cache
  /\ IF get_redis_manager.raised
       THEN UNCHANGED <<_locks, _lock_values, redis>>
       ELSE IF ReleaseUsesRedis(t)
       THEN /\ redis' = ReleaseRedis(t).store
            /\ _lock_values' = ReleaseRedis(t).values
            /\ UNCHANGED _locks
       ELSE /\ _locks' = ReleaseLocal(t)
            /\ UNCHANGED <<redis, _lock_values>>
  /\ UNCHANGED <<lock_timeout, now, backend, otherValue>>

\* local is_locked with >= for > in its expiry test
IsLockedLocalOffByOne(t) ==
  IF t \notin DOMAIN _locks
    THEN [res |-> FALSE, locks |-> _locks]
    ELSE IF now - _locks[t] >= lock_timeout
           THEN [res |-> FALSE, locks |-> Remove(_locks, t)]
           ELSE [res |-> TRUE, locks |-> _locks]

\* is_locked, local branch (token_lock.py:116-127)
IsLockedLocal(t) ==
  IF t \notin DOMAIN _locks
    THEN [res |-> FALSE, locks |-> _locks]
    ELSE IF Expired(_locks[t])
           THEN [res |-> FALSE, locks |-> Remove(_locks, t)]
           ELSE [res |-> TRUE, locks |-> _locks]

\* is_locked (token_lock.py:101-127)
is_locked(t) ==
  /\ _redis_manager' = get_redis_manager.cache
  /\ IF get_redis_manager.raised \/ UseRedis
       THEN UNCHANGED _locks
       ELSE _locks' = IsLockedLocal(t).locks
  /\ UNCHANGED <<lock_timeout, _lock_values, now, backend, redis, otherValue>>

\* a sweep with >= for > in its expiry test
CleanupLocalOffByOne ==
  [t \in {x \in DOMAIN _locks : ~(now - _locks[x] >= lock_timeout)} |-> _locks[t]]

\* the sweep of cleanup_expired_locks (token_lock.py:131-140)
CleanupLocal ==
  [t \in {x \in DOMAIN _locks : ~Expired(_locks[x])} |-> _locks[t]]

\* cleanup_expired_locks (token_lock.py:129-144)
cleanup_expired_locks ==
  /\ _locks' = CleanupLocal
  /\ UNCHANGED <<lock_timeout, _lock_values, _redis_manager, now, backend, redis,
                 otherValue>>

\* get_locked_tokens (token_lock.py:146-148): list(self._locks.keys())
get_locked_tokens == DOMAIN _locks

GetLockedTokens == UNCHANGED progVars

\* a set_lock_timeout that sweeps the table against the new timeout
SetTimeoutLocksSweep(s) ==
  [t \in {x \in DOMAIN _locks : ~(now - _locks[x] > s)} |-> _locks[t]]

\* what set_lock_timeout leaves in the lock table (token_lock.py:150-153
\* assigns self.lock_timeout and nothing else)
SetTimeoutLocks(s) == _locks

\* set_lock_timeout (token_lock.py:150-153)
set_lock_timeout(s) ==
  /\ lock_timeout' = s
  /\ _locks' = SetTimeoutLocks(s)
  /\ UNCHANGED <<_lock_values, _redis_manager, now, backend, redis, otherValue>>

\* ---- environment
Tick ==
  /\ now < MaxTime
  /\ now' = now + 1
  /\ redis' = RedisExpire(redis, now + 1)
  /\ otherValue' = [t \in {x \in DOMAIN otherValue : RedisLive(redis, x, now + 1)}
                      |-> otherValue[t]]
  /\ UNCHANGED <<lock_timeout, _locks, _lock_values, _redis_manager, backend>>

BackendChange(b) ==
  /\ b # backend
  /\ backend' = b
  /\ UNCHANGED <<lock_timeout, _locks, _lock_values, _redis_manager, now, redis,
                 otherValue>>

\* another process of the service acquiring through the shared backend
OtherAcquire(t, ttl) ==
  /\ acquire_token_lock(redis, t, ttl).value # 0
  /\ redis' = acquire_token_lock(redis, t, ttl).store
  /\ otherValue' = Put(otherValue, t, acquire_token_lock(redis, t, ttl).value)
  /\ UNCHANGED <<lock_timeout, _locks, _lock_values, _redis_manager, now, backend>>

\* the other process releasing with its own ownership token
OtherRelease(t) ==
  /\ t \in DOMAIN otherValue
  /\ redis' = release_token_lock(redis, t, otherValue[t])
  /\ otherValue' = Remove(otherValue, t)
  /\ UNCHANGED <<lock_timeout, _locks, _lock_values, _redis_manager, now, backend>>

(***************************************************************************)
(* Observers: what a step was and what it returned, computed from the      *)
(* state the call started in.                                              *)
(***************************************************************************)
Ev(op, tok, arg) == [op |-> op, tok |-> tok, arg |-> arg]

EvRaised(e) ==
  e.op \in {"acquire", "release", "is_locked"} /\ get_redis_manager.raised

EvMode(e) ==
  IF EvRaised(e) THEN "none"
  ELSE IF e.op \in {"acquire", "is_locked"} THEN (IF UseRedis THEN "redis" ELSE "local")
  ELSE IF e.op = "release" THEN (IF ReleaseUsesRedis(e.tok) THEN "redis" ELSE "local")
  ELSE IF e.op \in {"cleanup", "get_locked", "set_timeout"} THEN "local"
  ELSE "none"

\* the value the call returns (TRUE for the calls that return nothing)
EvRes(e) ==
  IF EvRaised(e) THEN FALSE
  ELSE IF e.op = "acquire"
    THEN (IF UseRedis THEN AcquireRedis(e.tok).res ELSE AcquireLocal(e.tok).res)
  ELSE IF e.op = "is_locked"
    THEN (IF UseRedis THEN is_token_locked(redis, e.tok) ELSE IsLockedLocal(e.tok).res)
  ELSE TRUE

NoCall ==
  [op |-> "none", tok |-> 0, mode |-> "none", res |-> TRUE, raised |-> FALSE,
   again |-> FALSE]

\* environment steps are not calls; again: the call before, with no step in
\* between, was the same call on the same token
LastNext(e) ==
  IF e.op \in {"tick", "backend", "other_acquire", "other_release"}
    THEN NoCall
    ELSE [op |-> e.op, tok |-> e.tok, mode |-> EvMode(e), res |-> EvRes(e),
          raised |-> EvRaised(e), again |-> (last.op = e.op /\ last.tok = e.tok)]

\* A grant is outstanding from the successful acquire until a release_lock of
\* its token on the manager that granted it, or until it expires: a local
\* grant when its age exceeds lock_timeout, a distributed one when its
\* time-to-live has run out.
GrantLive(g, time, timeout) ==
  IF g.mode = "local" THEN time - g.at <= timeout ELSE time < g.at + g.ttl

Prune(gs, time, timeout) == {g \in gs : GrantLive(g, time, timeout)}

Outstanding(t, mode) == {g \in grants : g.tok = t /\ g.mode = mode}

\* n: how many grants of the same token and mode were outstanding already
NewGrant(t, mode, proc, ttl) ==
  [tok |-> t, mode |-> mode, proc |-> proc, at |-> now,
   ttl |-> IF mode = "local" THEN 0 ELSE ttl,
   n |-> Cardinality(Outstanding(t, mode))]

GrantsNext(e) ==
  LET after ==
        IF e.op = "acquire" /\ EvRes(e)
          THEN grants \cup {NewGrant(e.tok, EvMode(e), "self", lock_timeout)}
        ELSE IF e.op = "release" /\ ~EvRaised(e)
          THEN {g \in grants : ~(g.tok = e.tok /\ g.proc = "self")}
        ELSE IF e.op = "other_acquire"
          THEN grants \cup {NewGrant(e.tok, "redis", "other", e.arg)}
        ELSE IF e.op = "other_release"
          THEN {g \in grants : ~(g.tok = e.tok /\ g.proc = "other")}
        ELSE grants
  IN  Prune(after, now', lock_timeout')

\* The local lease of a token: when it was acquired (at), under which
\* timeout (to), and whether the timeout has stayed the same since (stable).
\* Kept from the successful local acquire until release_lock of the token.
LeaseNext(e) ==
  IF e.op = "acquire" /\ EvMode(e) = "local" /\ EvRes(e)
    THEN Put(lease, e.tok, [at |-> now, to |-> lock_timeout, stable |-> TRUE])
  ELSE IF e.op = "release" /\ ~EvRaised(e)
    THEN Remove(lease, e.tok)
  ELSE IF e.op = "set_timeout" /\ e.arg # lock_timeout
    THEN [t \in DOMAIN lease |-> [lease[t] EXCEPT !.stable = FALSE]]
  ELSE lease

\* The caller holding the local lease of a token (by) and the caller whose
\* unreleased, expired lease it took over (over, 0 for none).  Kept from the
\* successful local acquire until release_lock of the token.
OwnerNext(e) ==
  IF e.op = "acquire" /\ EvMode(e) = "local" /\ EvRes(e)
    THEN Put(owner, e.tok,
             [by |-> e.arg,
              over |-> IF e.tok \in DOMAIN owner THEN owner[e.tok].by ELSE 0])
  ELSE IF e.op = "release" /\ ~EvRaised(e)
    THEN Remove(owner, e.tok)
  ELSE owner

\* the other process of the service, as a holder
OtherProcess == NumCallers + 1

\* The holder of the distributed lease of a token (by: a job of this manager
\* or the other process) and the holder whose unreleased, expired lease it
\* took over (over, 0 for none).  Kept from the successful distributed
\* acquire until the holder's own release of the token; a release by someone
\* else that removes the lease leaves the token with no holder (by = 0).
HolderNext(e) ==
  IF e.op = "acquire" /\ EvMode(e) = "redis" /\ EvRes(e)
    THEN Put(owner, e.tok,
             [by |-> e.arg,
              over |-> IF e.tok \in DOMAIN owner THEN owner[e.tok].by ELSE 0])
  ELSE IF e.op = "other_acquire"
    THEN Put(owner, e.tok,
             [by |-> OtherProcess,
              over |-> IF e.tok \in DOMAIN owner THEN owner[e.tok].by ELSE 0])
  ELSE IF /\ e.op = "release" /\ ~EvRaised(e)
          /\ e.tok \in DOMAIN owner /\ owner[e.tok].by = e.arg
    THEN Remove(owner, e.tok)
  ELSE IF /\ e.op = "release" /\ EvMode(e) = "redis"
          /\ e.tok \in DOMAIN owner
          /\ ReleaseRedis(e.tok).store # redis
    THEN Put(owner, e.tok, [by |-> 0, over |-> 0])
  ELSE IF /\ e.op = "other_release"
          /\ e.tok \in DOMAIN owner /\ owner[e.tok].by = OtherProcess
    THEN Remove(owner, e.tok)
  ELSE owner

EverLockedNext(e) ==
  IF e.op = "acquire" /\ EvRes(e) THEN everLocked \cup {e.tok} ELSE everLocked

ObsGrants(e) ==
  /\ grants' = GrantsNext(e)
  /\ UNCHANGED <<lease, owner, everLocked, last>>
  /\ UNCHANGED <<dbVars, adVars, storeVars>>

ObsLease(e) ==
  /\ lease' = LeaseNext(e)
  /\ UNCHANGED <<grants, owner, everLocked, last>>
  /\ UNCHANGED <<dbVars, adVars, storeVars>>

ObsOwner(e) ==
  /\ owner' = OwnerNext(e)
  /\ UNCHANGED <<grants, lease, everLocked, last>>
  /\ UNCHANGED <<dbVars, adVars, storeVars>>

ObsHolder(e) ==
  /\ owner' = HolderNext(e)
  /\ UNCHANGED <<grants, lease, everLocked, last>>
  /\ UNCHANGED <<dbVars, adVars, storeVars>>

ObsCalls(e) ==
  /\ last' = LastNext(e)
  /\ everLocked' = EverLockedNext(e)
  /\ UNCHANGED <<grants, lease, owner>>
  /\ UNCHANGED <<dbVars, adVars, storeVars>>

\* TokenLock.__init__ (token_lock.py:12-23); the constructor argument and the
\* state of the backend at construction are inputs.
InitLock ==
  /\ lock_timeout \in Timeouts
  /\ _locks = EmptyDict
  /\ _lock_values = EmptyDict
  /\ _redis_manager = "None"
  /\ now = 0
  /\ backend \in BackendStates
  /\ redis = EmptyDict
  /\ otherValue = EmptyDict
  /\ grants = {}
  /\ lease = EmptyDict
  /\ owner = EmptyDict
  /\ everLocked = {}
  /\ last = NoCall

(***************************************************************************)
(* SQLiteAdapter: the write path (db_adapter.py:133-160)                   *)
(***************************************************************************)
NumTasks == 2
Tasks == 1..NumTasks

\* max_retries: int = 5 (db_adapter.py:133)
DefaultMaxRetries == 5
\* the values callers pass for max_retries; range(max_retries) makes at least
\* one attempt for each of them
RetryChoices == {1, 2, DefaultMaxRetries}

\* what aiosqlite raises inside the guarded section: the class of the
\* exception and its lower-cased message, word by word
Errors ==
  { [cls |-> "OperationalError", msg |-> <<"database", "is", "locked">>],
    [cls |-> "OperationalError",
     msg |-> <<"unable", "to", "open", "database", "file">>],
    [cls |-> "OperationalError", msg |-> <<"no", "such", "table">>],
    [cls |-> "IntegrityError", msg |-> <<"unique", "constraint", "failed">>] }
NoError == [cls |-> "None", msg |-> <<>>]
\* MySQLAdapter.connection names aiomysql, which its scope does not define
NameError == [cls |-> "NameError", msg |-> <<"aiomysql", "is", "not", "defined">>]
\* the task is cancelled while it waits
CancelledError == [cls |-> "CancelledError", msg |-> <<>>]

Writers == {"execute", "execute_many"}
Readers == {"fetchone", "fetchall", "connection"}

\* the stage a call starts in: execute and execute_many of SQLiteAdapter wait
\* for the write lock; every other call goes for its connection at once
FirstStage(m) ==
  IF db_type = "sqlite" /\ m \in Writers THEN "lock" ELSE "connect"

\* Python's `sub in msg` on the words of the message
IsInfix(sub, msg) ==
  \E i \in 0..(Len(msg) - Len(sub)) : SubSeq(msg, i + 1, i + Len(sub)) = sub

\* a test of the message that every message passes
RetryableAnyMessage(e) == TRUE

\* "database is locked" in error_msg or "unable to open" in error_msg
Retryable(e) ==
  \/ IsInfix(<<"database", "is", "locked">>, e.msg)
  \/ IsInfix(<<"unable", "to", "open">>, e.msg)

ShouldRetryNoLimit(e, a, mr) ==
  e.cls = "OperationalError" /\ Retryable(e) /\ a < mr

\* except aiosqlite.OperationalError ... if (...) and attempt < max_retries - 1
ShouldRetry(e, a, mr) ==
  e.cls = "OperationalError" /\ Retryable(e) /\ a < mr - 1

LockFreeAlways(l) == TRUE

\* asyncio.Lock: acquire() returns only while the lock is not held
LockFree(l) == l = 0

InSection == {"connect", "statement", "commit"}

InitDb ==
  /\ _write_lock = 0
  /\ pc = [t \in Tasks |-> "idle"]
  /\ method = [t \in Tasks |-> "none"]
  /\ max_retries = [t \in Tasks |-> 0]
  /\ attempt = [t \in Tasks |-> 0]
  /\ conn = [t \in Tasks |-> FALSE]
  /\ err = [t \in Tasks |-> NoError]
  /\ result = [t \in Tasks |-> "none"]
  /\ tries = [t \in Tasks |-> 0]
  /\ sleeps = [t \in Tasks |-> 0]

\* a task calls execute(sql, params, max_retries): for attempt in range(...)
CallExecute(t, mr) ==
  /\ pc[t] = "idle"
  /\ db_type = "mysql" => mr = 1
  /\ pc' = [pc EXCEPT ![t] = FirstStage("execute")]
  /\ method' = [method EXCEPT ![t] = "execute"]
  /\ max_retries' = [max_retries EXCEPT ![t] = mr]
  /\ attempt' = [attempt EXCEPT ![t] = 0]
  /\ UNCHANGED <<_write_lock, conn, err, result, tries, sleeps>>

\* a task calls execute_many(sql, params_list): a single attempt
CallExecuteMany(t) ==
  /\ pc[t] = "idle"
  /\ pc' = [pc EXCEPT ![t] = FirstStage("execute_many")]
  /\ method' = [method EXCEPT ![t] = "execute_many"]
  /\ max_retries' = [max_retries EXCEPT ![t] = 1]
  /\ attempt' = [attempt EXCEPT ![t] = 0]
  /\ UNCHANGED <<_write_lock, conn, err, result, tries, sleeps>>

\* a task calls fetchone, fetchall, or enters `async with connection()`
CallRead(t, m) ==
  /\ pc[t] = "idle"
  /\ m \in Readers
  /\ pc' = [pc EXCEPT ![t] = FirstStage(m)]
  /\ method' = [method EXCEPT ![t] = m]
  /\ max_retries' = [max_retries EXCEPT ![t] = 1]
  /\ attempt' = [attempt EXCEPT ![t] = 0]
  /\ UNCHANGED <<_write_lock, conn, err, result, tries, sleeps>>

\* async with self._write_lock: the attempt starts once the lock is taken
EnterWrite(t) ==
  /\ pc[t] = "lock"
  /\ LockFree(_write_lock)
  /\ _write_lock' = t
  /\ pc' = [pc EXCEPT ![t] = "connect"]
  /\ tries' = [tries EXCEPT ![t] = @ + 1]
  /\ UNCHANGED <<method, max_retries, attempt, conn, err, result, sleeps>>

\* async with self.connection() as conn: connect and the PRAGMAs succeed;
\* async with self._pool.acquire() as conn: the pool hands out a connection
Connect(t) ==
  /\ pc[t] = "connect"
  /\ pc' = [pc EXCEPT ![t] = "statement"]
  /\ conn' = [conn EXCEPT ![t] = TRUE]
  /\ UNCHANGED <<_write_lock, method, max_retries, attempt, err, result, tries, sleeps>>

\* await conn.execute(sql, params) / await conn.executemany(sql, params_list)
Statement(t) ==
  /\ pc[t] = "statement"
  /\ method[t] \in Writers
  /\ pc' = [pc EXCEPT ![t] = "commit"]
  /\ UNCHANGED <<_write_lock, method, max_retries, attempt, conn, err, result, tries, sleeps>>

\* fetchone / fetchall return their rows, the body of `async with
\* connection()` ends: the connection is closed or goes back to the pool.
\* MySQLAdapter.connection never gets that far
ReadDone(t) ==
  /\ pc[t] = "statement"
  /\ method[t] \in Readers
  /\ ~(db_type = "mysql" /\ method[t] = "connection")
  /\ pc' = [pc EXCEPT ![t] = "done"]
  /\ conn' = [conn EXCEPT ![t] = FALSE]
  /\ result' = [result EXCEPT ![t] = "rows"]
  /\ UNCHANGED <<_write_lock, method, max_retries, attempt, err, tries, sleeps>>

\* await conn.commit(); return cursor.lastrowid: the connection is closed and
\* the lock released on the way out
Commit(t) ==
  /\ pc[t] = "commit"
  /\ pc' = [pc EXCEPT ![t] = "done"]
  /\ conn' = [conn EXCEPT ![t] = FALSE]
  /\ _write_lock' = IF _write_lock = t THEN 0 ELSE _write_lock
  /\ result' = [result EXCEPT ![t] =
                  IF method[t] = "execute" THEN "lastrowid" ELSE "None"]
  /\ UNCHANGED <<method, max_retries, attempt, err, tries, sleeps>>

\* what the await task t is at can raise: a constraint is violated only by
\* a statement or its commit; after the pool's connection is there,
\* MySQLAdapter.connection raises NameError and nothing else
Raisable(t) ==
  IF db_type = "mysql" /\ method[t] = "connection" /\ pc[t] = "statement"
    THEN {NameError}
    ELSE {e \in Errors : e.cls = "IntegrityError" => pc[t] # "connect"}

NotClosedOnError(c, t) == c

\* finally: await conn.close() (SQLiteAdapter.connection); leaving
\* `async with self._pool.acquire()` (MySQLAdapter)
ClosedOnError(c, t) == [c EXCEPT ![t] = FALSE]

\* a write lock that stays with the task whose attempt raised
HeldOnError(l, t) == l

\* the exception leaves `async with self._write_lock` (db_adapter.py:138,
\* 157): the lock is released before the except clause runs
ReleasedOnError(l, t) == IF l = t THEN 0 ELSE l

\* an await inside the guarded section raises e: the connection is closed
\* (finally), the lock is released (leaving async with), and then the except
\* clause of SQLiteAdapter.execute decides; no other call has one
Raise(t, e) ==
  /\ pc[t] \in InSection
  /\ e \in Raisable(t) \cup {CancelledError}
  /\ conn' = ClosedOnError(conn, t)
  /\ _write_lock' = ReleasedOnError(_write_lock, t)
  /\ IF /\ db_type = "sqlite"
        /\ method[t] = "execute"
        /\ ShouldRetry(e, attempt[t], max_retries[t])
       THEN /\ pc' = [pc EXCEPT ![t] = "sleep"]
            /\ sleeps' = [sleeps EXCEPT ![t] = @ + 1]
            /\ UNCHANGED err
       ELSE /\ pc' = [pc EXCEPT ![t] = "failed"]
            /\ err' = [err EXCEPT ![t] = e]
            /\ UNCHANGED sleeps
  /\ UNCHANGED <<method, max_retries, attempt, result, tries>>

\* the task is cancelled: CancelledError is raised at the await it is at;
\* waiting for the write lock or in the backoff sleep it holds nothing
Cancel(t) ==
  \/ Raise(t, CancelledError)
  \/ /\ pc[t] \in {"lock", "sleep"}
     /\ pc' = [pc EXCEPT ![t] = "failed"]
     /\ err' = [err EXCEPT ![t] = CancelledError]
     /\ UNCHANGED <<_write_lock, method, max_retries, attempt, conn, result,
                    tries, sleeps>>

\* await asyncio.sleep(wait_time) returns: the next round of the loop, or the
\* end of the loop and of the function
Wake(t) ==
  /\ pc[t] = "sleep"
  /\ attempt' = [attempt EXCEPT ![t] = @ + 1]
  /\ IF attempt[t] + 1 < max_retries[t]
       THEN pc' = [pc EXCEPT ![t] = "lock"] /\ UNCHANGED result
       ELSE pc' = [pc EXCEPT ![t] = "done"]
            /\ result' = [result EXCEPT ![t] = "None"]
  /\ UNCHANGED <<_write_lock, method, max_retries, conn, err, tries, sleeps>>

\* the caller has its result or its exception; the task is free again
Return(t) ==
  /\ pc[t] \in {"done", "failed"}
  /\ pc' = [pc EXCEPT ![t] = "idle"]
  /\ method' = [method EXCEPT ![t] = "none"]
  /\ max_retries' = [max_retries EXCEPT ![t] = 0]
  /\ attempt' = [attempt EXCEPT ![t] = 0]
  /\ err' = [err EXCEPT ![t] = NoError]
  /\ result' = [result EXCEPT ![t] = "none"]
  /\ tries' = [tries EXCEPT ![t] = 0]
  /\ sleeps' = [sleeps EXCEPT ![t] = 0]
  /\ UNCHANGED <<_write_lock, conn>>


(***************************************************************************)
(* The adapters' lifecycle and the global adapter (db_adapter.py:79-392)   *)
(***************************************************************************)
MaxInstances == 2
Kinds == {"sqlite", "mysql"}
DataOps == {"execute", "execute_many", "fetchone", "fetchall", "connection"}
\* what the store does with the operation: serves it, cannot be reached
\* (connect / create_pool raises), or rejects the statement
Outcomes == {"ok", "unreachable", "rejected"}

NoAdapterCall ==
  [op |-> "none", inst |-> 0, raised |-> FALSE, inited |-> FALSE,
   wasClosed |-> FALSE, reinit |-> FALSE, env |-> "ok",
   res |-> FALSE, present |-> FALSE]

\* SQLiteAdapter.__init__ / MySQLAdapter.__init__; setups (history) counts
\* the times the body of initialize() ran to its end since the last close()
NewAdapter(k) ==
  [kind |-> k, _initialized |-> FALSE, _pool |-> FALSE, closed |-> FALSE,
   setups |-> 0]

\* initialize() has run to its end: _initialized = True, and on MySQL the
\* pool is there
Initialized(a) ==
  [a EXCEPT !._initialized = TRUE, !._pool = (a.kind = "mysql"),
            !.closed = FALSE, !.setups = @ + 1]

\* close(): the pool is closed and dropped, _initialized = False
Closed(a) ==
  [a EXCEPT !._initialized = FALSE, !._pool = FALSE, !.closed = TRUE,
            !.setups = 0]

InitAdapter ==
  /\ db_type \in Kinds
  /\ _adapter = 0
  /\ insts = EmptyDict
  /\ initializing = {}
  /\ lastCall = NoAdapterCall

\* get_adapter(): RuntimeError while the global is None, else the global
get_adapter ==
  /\ lastCall' =
       IF _adapter = 0
         THEN [NoAdapterCall EXCEPT !.op = "get_adapter", !.raised = TRUE]
         ELSE [NoAdapterCall EXCEPT !.op = "get_adapter", !.inst = _adapter,
                                    !.inited = insts[_adapter]._initialized]
  /\ UNCHANGED <<db_type, _adapter, insts, initializing>>

\* init_adapter() up to its await: returns the global when there is one, else
\* constructs the adapter of the configured kind, stores it in the global and
\* starts its initialize()
init_adapter ==
  IF _adapter # 0
    THEN /\ lastCall' = [NoAdapterCall EXCEPT
                           !.op = "init_adapter", !.inst = _adapter,
                           !.inited = insts[_adapter]._initialized]
         /\ UNCHANGED <<db_type, _adapter, insts, initializing>>
    ELSE /\ Cardinality(DOMAIN insts) < MaxInstances
         /\ LET i == Cardinality(DOMAIN insts) + 1
            IN  /\ insts' = Put(insts, i, NewAdapter(db_type))
                /\ _adapter' = i
                /\ initializing' = initializing \cup {i}
                /\ lastCall' = [NoAdapterCall EXCEPT
                                  !.op = "init_adapter_await", !.inst = i]
         /\ UNCHANGED db_type

\* `await _adapter.initialize()` of init_adapter ends: it returns the
\* adapter, or the exception of initialize() propagates and the global stays
init_adapter_done(i, env) ==
  /\ i \in initializing
  /\ initializing' = initializing \ {i}
  /\ IF env = "ok"
       THEN /\ insts' = [insts EXCEPT ![i] = Initialized(@)]
            /\ lastCall' = [NoAdapterCall EXCEPT
                              !.op = "init_adapter", !.inst = i,
                              !.inited = TRUE, !.env = env]
       ELSE /\ UNCHANGED insts
            /\ lastCall' = [NoAdapterCall EXCEPT
                              !.op = "init_adapter", !.inst = i,
                              !.raised = TRUE, !.env = env]
  /\ UNCHANGED <<db_type, _adapter>>

\* close_adapter(): closes the global adapter, if any, and clears the global
close_adapter ==
  /\ IF _adapter # 0
       THEN /\ insts' = [insts EXCEPT ![_adapter] = Closed(@)]
            /\ _adapter' = 0
       ELSE UNCHANGED <<insts, _adapter>>
  /\ lastCall' = [NoAdapterCall EXCEPT !.op = "close_adapter", !.inst = _adapter]
  /\ UNCHANGED <<db_type, initializing>>

\* adapter.initialize() called by a holder of the adapter: a no-op when
\* initialized, else the probe connection / the pool creation may fail
initialize(i, env) ==
  /\ i \in DOMAIN insts
  /\ insts' = [insts EXCEPT ![i] =
                 IF @._initialized THEN [@ EXCEPT !.closed = FALSE]
                 ELSE IF env = "ok" THEN Initialized(@) ELSE @]
  /\ lastCall' = [NoAdapterCall EXCEPT
                    !.op = "initialize", !.inst = i, !.env = env,
                    !.raised = (~insts[i]._initialized /\ env # "ok"),
                    !.inited = (insts[i]._initialized \/ env = "ok")]
  /\ UNCHANGED <<db_type, _adapter, initializing>>

\* adapter.close() called by a holder of the adapter
close(i) ==
  /\ i \in DOMAIN insts
  /\ insts' = [insts EXCEPT ![i] = Closed(@)]
  /\ lastCall' = [NoAdapterCall EXCEPT !.op = "close", !.inst = i]
  /\ UNCHANGED <<db_type, _adapter, initializing>>

\* SQLiteAdapter.connection / execute / execute_many / fetchone / fetchall:
\* each opens its own connection to db_path; none reads _initialized
SQLiteOp(a, o, env) ==
  [inst |-> a,
   raised |-> (env = "unreachable" \/ (env = "rejected" /\ o # "connection"))]

\* MySQLAdapter.connection / execute / execute_many / fetchone / fetchall:
\* `if not self._initialized: await self.initialize()`, then a connection of
\* the pool; connection() then names aiomysql, which that scope does not have
MySQLOp(a, o, env) ==
  IF ~a._initialized /\ env = "unreachable"
    THEN [inst |-> a, raised |-> TRUE]
    ELSE [inst |-> [a EXCEPT !._initialized = TRUE, !._pool = TRUE,
                              !.setups = IF a._initialized THEN @ ELSE @ + 1],
          raised |-> (env # "ok" \/ o = "connection")]

DataOpResult(a, o, env) ==
  IF a.kind = "sqlite" THEN SQLiteOp(a, o, env) ELSE MySQLOp(a, o, env)

\* a holder of adapter i runs data operation o
DataOp(i, o, env) ==
  /\ i \in DOMAIN insts
  /\ LET r == DataOpResult(insts[i], o, env)
     IN  /\ insts' = [insts EXCEPT ![i] = r.inst]
         /\ lastCall' = [op |-> o, inst |-> i, raised |-> r.raised,
                         inited |-> r.inst._initialized,
                         wasClosed |-> insts[i].closed,
                         reinit |-> (~insts[i]._initialized
                                       /\ r.inst._initialized),
                         env |-> env, res |-> ~r.raised, present |-> FALSE]
  /\ UNCHANGED <<db_type, _adapter, initializing>>

IntrospectOps == {"table_exists", "column_exists"}

\* SQLiteAdapter.table_exists: fetchone on sqlite_master, result is not None;
\* SQLiteAdapter.column_exists: fetchall of PRAGMA table_info inside
\* try / except Exception: return False.  present: the catalog has the object
SQLiteIntrospect(a, o, present, env) ==
  LET q == SQLiteOp(a, IF o = "table_exists" THEN "fetchone" ELSE "fetchall", env)
  IN  IF o = "table_exists"
        THEN [inst |-> q.inst, raised |-> q.raised,
              res |-> (~q.raised /\ present)]
        ELSE [inst |-> q.inst, raised |-> FALSE,
              res |-> (~q.raised /\ present)]

\* MySQLAdapter.table_exists / column_exists: fetchone on information_schema,
\* result is not None
MySQLIntrospect(a, o, present, env) ==
  LET q == MySQLOp(a, "fetchone", env)
  IN  [inst |-> q.inst, raised |-> q.raised, res |-> (~q.raised /\ present)]

\* a holder of adapter i asks whether a table or a column exists
Introspect(i, o, present, env) ==
  /\ i \in DOMAIN insts
  /\ LET r == IF insts[i].kind = "sqlite"
                THEN SQLiteIntrospect(insts[i], o, present, env)
                ELSE MySQLIntrospect(insts[i], o, present, env)
     IN  /\ insts' = [insts EXCEPT ![i] = r.inst]
         /\ lastCall' = [NoAdapterCall EXCEPT
                           !.op = o, !.inst = i, !.raised = r.raised,
                           !.inited = r.inst._initialized, !.env = env,
                           !.res = r.res, !.present = present]
  /\ UNCHANGED <<db_type, _adapter, initializing>>


\* the parts a specification does not run stay as constructed
LockAtRest ==
  /\ lock_timeout = 1
  /\ _locks = EmptyDict
  /\ _lock_values = EmptyDict
  /\ _redis_manager = "None"
  /\ now = 0
  /\ backend = "down"
  /\ redis = EmptyDict
  /\ otherValue = EmptyDict
  /\ grants = {}
  /\ lease = EmptyDict
  /\ owner = EmptyDict
  /\ everLocked = {}
  /\ last = NoCall

AdapterAtRest ==
  /\ db_type = "sqlite"
  /\ _adapter = 0
  /\ insts = EmptyDict
  /\ initializing = {}
  /\ lastCall = NoAdapterCall

(***************************************************************************)
(* Writes and reads through an adapter (db_adapter.py:133-182, 263-324)    *)
(***************************************************************************)
MaxValLen == 1
Keys == {"k1", "k2"}
\* the characters of a value: a plain one and the question mark
Chars == {"a", "?"}

SeqsUpTo(S, n) == UNION {[1..m -> S] : m \in 1..n}
Vals == SeqsUpTo(Chars, MaxValLen)

NoIo == [op |-> "none", key |-> "none", raised |-> FALSE, res |-> <<>>]

StoreAtRest ==
  /\ table = EmptyDict
  /\ written = EmptyDict
  /\ lastIo = NoIo

\* the statement a caller passes to execute for writing v under k: the value
\* as a quoted literal in the SQL text, or as a `?` placeholder with v in
\* params
WriteStmt(k, v, inline) ==
  IF inline
    THEN [key |-> k, text |-> <<"'">> \o v \o <<"'">>, params |-> <<>>]
    ELSE [key |-> k, text |-> <<"?">>, params |-> <<v>>]

\* sql = sql.replace("?", "%s")
Rewrite(text) ==
  [i \in DOMAIN text |-> IF text[i] = "?" THEN "%s" ELSE text[i]]

\* what the engine stores for the value expression: the characters between
\* the quotes, or the parameter bound to the placeholder ph
Evaluated(text, params, ph) ==
  IF text[1] = "'" THEN SubSeq(text, 2, Len(text) - 1)
  ELSE IF text[1] = ph /\ Len(params) = 1 THEN params[1]
  ELSE <<"error">>

\* SQLiteAdapter.execute: conn.execute(sql, params) binds `?`
SQLiteValue(st) == Evaluated(st.text, st.params, "?")

\* MySQLAdapter.execute: the rewritten sql; cursor.execute(sql, params) binds
\* `%s` when there are params, and formats nothing when there are none
MySQLValue(st) == Evaluated(Rewrite(st.text), st.params, "%s")

StoredValue(st) ==
  IF db_type = "sqlite" THEN SQLiteValue(st) ELSE MySQLValue(st)

\* execute(sql, params) writing v under k; ok: the store accepts the statement
StoreExecute(k, v, inline, ok) ==
  /\ table' = IF ok THEN Put(table, k, StoredValue(WriteStmt(k, v, inline)))
              ELSE table
  /\ written' = IF ok THEN Put(written, k, v) ELSE written
  /\ lastIo' = [op |-> "execute", key |-> k, raised |-> ~ok, res |-> <<>>]

\* execute_many(sql, params_list): one placeholder statement, run for each
\* tuple of params_list in order, then one commit
RECURSIVE WriteAll(_, _)
WriteAll(tb, rows) ==
  IF rows = <<>> THEN tb
  ELSE WriteAll(Put(tb, rows[1].k,
                    StoredValue(WriteStmt(rows[1].k, rows[1].v, FALSE))),
                Tail(rows))

RECURSIVE NoteAll(_, _)
NoteAll(w, rows) ==
  IF rows = <<>> THEN w
  ELSE NoteAll(Put(w, rows[1].k, rows[1].v), Tail(rows))

StoreExecuteMany(rows, ok) ==
  /\ table' = IF ok THEN WriteAll(table, rows) ELSE table
  /\ written' = IF ok THEN NoteAll(written, rows) ELSE written
  /\ lastIo' = [op |-> "execute_many", key |-> rows[1].k, raised |-> ~ok,
                res |-> <<>>]

\* fetchone(sql, (k,)): dict(row) / the DictCursor's row, or None (here <<>>)
\* fetchall(sql, (k,)): the list of such rows
FetchResult(k) ==
  IF k \in DOMAIN table THEN <<[v |-> table[k]]>> ELSE <<>>

StoreFetch(m, k) ==
  /\ m \in {"fetchone", "fetchall"}
  /\ lastIo' = [op |-> m, key |-> k, raised |-> FALSE, res |-> FetchResult(k)]
  /\ UNCHANGED <<table, written>>

(***************************************************************************)
(* Specifications of the token lock manager                                *)
(***************************************************************************)
\* ---- the steps of the manager and its environment, each with an observer
Acquire(Obs(_), who) ==
  \E c \in who, t \in Tokens : acquire_lock(t) /\ Obs(Ev("acquire", t, c))

Release(Obs(_), who) ==
  \E c \in who, t \in Tokens : release_lock(t) /\ Obs(Ev("release", t, c))

IsLocked(Obs(_), who) ==
  \E c \in who, t \in Tokens : is_locked(t) /\ Obs(Ev("is_locked", t, c))

Cleanup(Obs(_)) == cleanup_expired_locks /\ Obs(Ev("cleanup", 0, 0))

GetLocked(Obs(_)) == GetLockedTokens /\ Obs(Ev("get_locked", 0, 0))

SetTimeout(Obs(_)) ==
  \E s \in Timeouts : set_lock_timeout(s) /\ Obs(Ev("set_timeout", 0, s))

Clock(Obs(_)) == Tick /\ Obs(Ev("tick", 0, 0))

Backend(Obs(_)) ==
  \E b \in BackendStates : BackendChange(b) /\ Obs(Ev("backend", 0, 0))

OtherAcq(Obs(_)) ==
  \E t \in Tokens, ttl \in Timeouts :
    OtherAcquire(t, ttl) /\ Obs(Ev("other_acquire", t, ttl))

OtherRel(Obs(_)) ==
  \E t \in Tokens : OtherRelease(t) /\ Obs(Ev("other_release", t, 0))

vars == <<lockVars, dbVars, adVars, storeVars>>

InitTokenLock == InitLock /\ InitDb /\ AdapterAtRest /\ StoreAtRest

\* the token lock manager, observed for its grants
Next ==
  \/ Acquire(ObsGrants, {1})
  \/ Release(ObsGrants, {1})
  \/ IsLocked(ObsGrants, {1})
  \/ Cleanup(ObsGrants)
  \/ GetLocked(ObsGrants)
  \/ SetTimeout(ObsGrants)
  \/ Clock(ObsGrants)
  \/ Backend(ObsGrants)
  \/ OtherAcq(ObsGrants)
  \/ OtherRel(ObsGrants)

Spec == InitTokenLock /\ [][Next]_vars

\* the token lock manager, observed for its local leases
NextLease ==
  \/ Acquire(ObsLease, {1})
  \/ Release(ObsLease, {1})
  \/ IsLocked(ObsLease, {1})
  \/ Cleanup(ObsLease)
  \/ GetLocked(ObsLease)
  \/ SetTimeout(ObsLease)
  \/ Clock(ObsLease)
  \/ Backend(ObsLease)
  \/ OtherAcq(ObsLease)
  \/ OtherRel(ObsLease)

SpecLease == InitTokenLock /\ [][NextLease]_vars

\* the token lock manager, observed for the callers that hold its local leases
NextOwner ==
  \/ Acquire(ObsOwner, Callers)
  \/ Release(ObsOwner, Callers)
  \/ IsLocked(ObsOwner, Callers)
  \/ Cleanup(ObsOwner)
  \/ GetLocked(ObsOwner)
  \/ SetTimeout(ObsOwner)
  \/ Clock(ObsOwner)
  \/ Backend(ObsOwner)
  \/ OtherAcq(ObsOwner)
  \/ OtherRel(ObsOwner)

SpecOwner == InitTokenLock /\ [][NextOwner]_vars

\* the token lock manager, observed for each call and what it returned
NextCalls ==
  \/ Acquire(ObsCalls, {1})
  \/ Release(ObsCalls, {1})
  \/ IsLocked(ObsCalls, {1})
  \/ Cleanup(ObsCalls)
  \/ GetLocked(ObsCalls)
  \/ SetTimeout(ObsCalls)
  \/ Clock(ObsCalls)
  \/ Backend(ObsCalls)
  \/ OtherAcq(ObsCalls)
  \/ OtherRel(ObsCalls)

SpecCalls == InitTokenLock /\ [][NextCalls]_vars

\* the token lock manager shared by several jobs, observed for the holders
\* of its distributed leases
NextHolder ==
  \/ Acquire(ObsHolder, Callers)
  \/ Release(ObsHolder, Callers)
  \/ IsLocked(ObsHolder, Callers)
  \/ Cleanup(ObsHolder)
  \/ GetLocked(ObsHolder)
  \/ SetTimeout(ObsHolder)
  \/ Clock(ObsHolder)
  \/ Backend(ObsHolder)
  \/ OtherAcq(ObsHolder)
  \/ OtherRel(ObsHolder)

SpecHolder == InitTokenLock /\ [][NextHolder]_vars

\* an attempt to acquire token t
AcquireOf(t) == acquire_lock(t) /\ ObsGrants(Ev("acquire", t, 1))

\* the token lock manager whose holders have crashed or hang: nobody
\* releases and the timeout stays as configured, while time keeps advancing
\* and the callers keep attempting every token
NextLive ==
  \/ Acquire(ObsGrants, {1})
  \/ IsLocked(ObsGrants, {1})
  \/ Cleanup(ObsGrants)
  \/ GetLocked(ObsGrants)
  \/ Clock(ObsGrants)
  \/ Backend(ObsGrants)

SpecLive ==
  /\ InitTokenLock
  /\ [][NextLive]_vars
  /\ WF_vars(Clock(ObsGrants))
  /\ \A t \in Tokens : WF_vars(AcquireOf(t))

(***************************************************************************)
(* Specifications of the storage layer                                     *)
(***************************************************************************)
\* the initial states of the three specifications' parts
InitWriters == InitDb /\ LockAtRest /\ AdapterAtRest /\ StoreAtRest
InitAdapters == InitAdapter /\ LockAtRest /\ InitDb /\ StoreAtRest

DbRest == UNCHANGED <<lockVars, adVars, storeVars>>
AdRest == UNCHANGED <<lockVars, dbVars, storeVars>>

Execute == \E t \in Tasks, mr \in RetryChoices : CallExecute(t, mr) /\ DbRest
ExecuteMany == \E t \in Tasks : CallExecuteMany(t) /\ DbRest
TakeWriteLock == \E t \in Tasks : EnterWrite(t) /\ DbRest
OpenConnection == \E t \in Tasks : Connect(t) /\ DbRest
RunStatement == \E t \in Tasks : Statement(t) /\ DbRest
CommitWrite == \E t \in Tasks : Commit(t) /\ DbRest
RaiseError == \E t \in Tasks, e \in Errors : Raise(t, e) /\ DbRest
BackoffOver == \E t \in Tasks : Wake(t) /\ DbRest
CallOver == \E t \in Tasks : Return(t) /\ DbRest

\* concurrent writers on one SQLiteAdapter
NextDb ==
  \/ Execute
  \/ ExecuteMany
  \/ TakeWriteLock
  \/ OpenConnection
  \/ RunStatement
  \/ CommitWrite
  \/ RaiseError
  \/ BackoffOver
  \/ CallOver

SpecDb == InitWriters /\ [][NextDb]_vars

\* every backend, every call, and cancellation
InitHandles ==
  /\ InitDb
  /\ LockAtRest
  /\ db_type \in Kinds
  /\ _adapter = 0
  /\ insts = EmptyDict
  /\ initializing = {}
  /\ lastCall = NoAdapterCall
  /\ StoreAtRest

Read == \E t \in Tasks, m \in Readers : CallRead(t, m) /\ DbRest
ReadOver == \E t \in Tasks : ReadDone(t) /\ DbRest
RaiseNameError == \E t \in Tasks : Raise(t, NameError) /\ DbRest
CancelTask == \E t \in Tasks : Cancel(t) /\ DbRest

\* tasks using one adapter, of either kind, through all its data operations
NextHandles ==
  \/ Execute
  \/ ExecuteMany
  \/ Read
  \/ TakeWriteLock
  \/ OpenConnection
  \/ RunStatement
  \/ ReadOver
  \/ CommitWrite
  \/ RaiseError
  \/ RaiseNameError
  \/ CancelTask
  \/ BackoffOver
  \/ CallOver

SpecHandles == InitHandles /\ [][NextHandles]_vars

StoreRest == UNCHANGED <<lockVars, dbVars, adVars>>

InitStore ==
  /\ StoreAtRest
  /\ LockAtRest
  /\ InitDb
  /\ db_type \in Kinds
  /\ _adapter = 0
  /\ insts = EmptyDict
  /\ initializing = {}
  /\ lastCall = NoAdapterCall

WriteOne ==
  \E k \in Keys, v \in Vals, inline \in BOOLEAN, ok \in BOOLEAN :
    StoreExecute(k, v, inline, ok) /\ StoreRest
WriteMany ==
  \E k1 \in Keys, k2 \in Keys, v1 \in Vals, v2 \in Vals, ok \in BOOLEAN :
    StoreExecuteMany(<<[k |-> k1, v |-> v1], [k |-> k2, v |-> v2]>>, ok)
      /\ StoreRest
FetchOne == \E k \in Keys : StoreFetch("fetchone", k) /\ StoreRest
FetchAll == \E k \in Keys : StoreFetch("fetchall", k) /\ StoreRest

\* writes and reads of the callers of one adapter, of either kind
NextStore ==
  \/ WriteOne
  \/ WriteMany
  \/ FetchOne
  \/ FetchAll

SpecStore == InitStore /\ [][NextStore]_vars

\* the next step of task t's call: the event loop runs a task whose await
\* has completed, every await of the call completes (with a value or an
\* exception), and asyncio.Lock wakes its waiters first come, first served
Progress(t) ==
  /\ \/ EnterWrite(t)
     \/ Connect(t)
     \/ Statement(t)
     \/ Commit(t)
     \/ \E e \in Errors : Raise(t, e)
     \/ Wake(t)
  /\ DbRest

\* concurrent writers on one SQLiteAdapter, each call scheduled fairly
SpecDbFair == SpecDb /\ \A t \in Tasks : SF_vars(Progress(t))

GetAdapter == get_adapter /\ AdRest
InitAdapterCall == init_adapter /\ AdRest
InitAdapterDone ==
  \E i \in 1..MaxInstances, env \in Outcomes : init_adapter_done(i, env) /\ AdRest
CloseAdapter == close_adapter /\ AdRest
AdapterInitialize ==
  \E i \in 1..MaxInstances, env \in Outcomes : initialize(i, env) /\ AdRest
AdapterClose == \E i \in 1..MaxInstances : close(i) /\ AdRest
AdapterDataOp ==
  \E i \in 1..MaxInstances, o \in DataOps, env \in Outcomes :
    DataOp(i, o, env) /\ AdRest
AdapterIntrospect ==
  \E i \in 1..MaxInstances, o \in IntrospectOps, present \in BOOLEAN,
     env \in Outcomes :
    Introspect(i, o, present, env) /\ AdRest

\* the global adapter, the adapter objects and their users
NextAdapter ==
  \/ GetAdapter
  \/ InitAdapterCall
  \/ InitAdapterDone
  \/ CloseAdapter
  \/ AdapterInitialize
  \/ AdapterClose
  \/ AdapterDataOp
  \/ AdapterIntrospect

SpecAdapter == InitAdapters /\ [][NextAdapter]_vars

(***************************************************************************)
(* Properties of the token lock manager                                    *)
(***************************************************************************)

\* C1: mutual exclusion.  For every token, at most one successful
\* acquire_lock granted by the local table is outstanding, and at most one
\* granted by the distributed backend (to this manager or to another
\* process), at any instant and under any interleaving of the calls, the
\* clock and the backend's reachability.
MutualExclusion ==
  \A t \in Tokens :
    /\ Cardinality(Outstanding(t, "local")) <= 1
    /\ Cardinality(Outstanding(t, "redis")) <= 1

\* a lease granted locally after time has passed, and one granted by the
\* backend, are outstanding together
MutualExclusionWitness ==
  /\ \E g \in grants : g.mode = "local" /\ g.at > 0
  /\ \E g \in grants : g.mode = "redis"

\* C2: expiry boundary in local mode.  While a lease acquired at T is not
\* released and the timeout is the one it started with, acquire_lock of its
\* token in local mode returns false when now - T <= lock_timeout and true
\* when now - T > lock_timeout.
ExpiryBoundary ==
  \A t \in DOMAIN lease :
    (lease[t].stable /\ EvMode(Ev("acquire", t, 1)) = "local")
      => (EvRes(Ev("acquire", t, 1)) = (now - lease[t].at > lock_timeout))

\* an unreleased lease is past its timeout and still in the table: the next
\* acquire_lock of its token returns true
ExpiryBoundaryWitness ==
  \E t \in DOMAIN lease :
    /\ lease[t].stable
    /\ EvMode(Ev("acquire", t, 1)) = "local"
    /\ t \in DOMAIN _locks
    /\ now - lease[t].at > lock_timeout
    /\ EvRes(Ev("acquire", t, 1))

\* C3: a stale release in local mode leaves the new holder's lease in
\* place.  When caller c's lease on t expired and another caller has since
\* acquired t and its lease is live, release_lock(t) by c in local mode
\* keeps t's entry.
StaleReleaseKeepsLease ==
  [][\A c \in Callers, t \in Tokens :
       ( /\ release_lock(t)
         /\ owner' = OwnerNext(Ev("release", t, c))
         /\ EvMode(Ev("release", t, c)) = "local"
         /\ t \in DOMAIN owner
         /\ owner[t].over = c
         /\ owner[t].by # c
         /\ t \in DOMAIN _locks
         /\ ~Expired(_locks[t]) )
       => (t \in DOMAIN _locks' /\ _locks'[t] = _locks[t])]_vars

ReleaseStep(t) == last'.op = "release" /\ last'.tok = t

\* C4 as stated: release_lock(t) for a t never locked, or right after a
\* release_lock(t), does not raise and leaves the lock table and the
\* remembered ownership tokens as they were.
IdempotentRelease ==
  [][\A t \in Tokens :
       (ReleaseStep(t) /\ (t \notin everLocked \/ last'.again))
       => (~last'.raised /\ _locks' = _locks /\ _lock_values' = _lock_values)]_vars

\* C4 as amended: such a release_lock(t) does not raise and leaves the
\* remembered ownership tokens, the backend's keys and every other token's
\* entry as they were; for a t never locked the table is unchanged; a
\* repeated release changes the table only by removing t's own entry, and
\* only when the release before it went to the distributed backend.
IdempotentReleaseAmended ==
  [][\A t \in Tokens :
       (ReleaseStep(t) /\ (t \notin everLocked \/ last'.again))
       => /\ ~last'.raised
          /\ _lock_values' = _lock_values
          /\ redis' = redis
          /\ Remove(_locks', t) = Remove(_locks, t)
          /\ t \notin DOMAIN _locks'
          /\ t \notin everLocked => _locks' = _locks
          /\ _locks' # _locks => (last.mode = "redis" /\ last'.mode = "local")]_vars

\* a release repeated while the backend is in use, on a token that was locked
IdempotentReleaseWitness ==
  /\ last.op = "release"
  /\ last.again
  /\ last.tok \in everLocked
  /\ UseRedis
  /\ \E u \in Tokens : u # last.tok /\ u \in DOMAIN _locks

Unavailable == backend # "up"

\* C5: fallback to local mode.  While the distributed backend cannot be
\* constructed, fails to initialize or is not connected, acquire_lock,
\* release_lock and is_locked do not raise, work on the local table only, an
\* acquire_lock of a token with no entry returns true and records it, and an
\* is_locked right after a successful acquire_lock of the token returns true.
FallbackToLocal ==
  [][(last'.op \in {"acquire", "release", "is_locked"} /\ Unavailable)
     => /\ ~last'.raised
        /\ last'.mode = "local"
        /\ redis' = redis
        /\ _lock_values' = _lock_values
        /\ (last'.op = "acquire" /\ last'.tok \notin DOMAIN _locks)
             => (last'.res /\ _locks' = Put(_locks, last'.tok, now))
        /\ (last'.op = "is_locked" /\ last.op = "acquire" /\ last.tok = last'.tok
              /\ last.res /\ last.mode = "local")
             => last'.res]_vars

\* is_locked has returned true from the local table although the backend
\* could not be constructed or initialized
FallbackToLocalWitness ==
  /\ last.op = "is_locked"
  /\ last.res
  /\ last.mode = "local"
  /\ backend \in {"import_error", "init_error"}
  /\ _redis_manager = "None"

\* the table entry of t is the one its lease wrote
HeldEntry(t) == t \in DOMAIN lease /\ t \in DOMAIN _locks /\ _locks[t] = lease[t].at

\* C6 as stated: a lease held when set_lock_timeout is called keeps being
\* judged by the timeout it was acquired under: acquire_lock, is_locked and
\* cleanup_expired_locks treat it as expired exactly when its age exceeds
\* that timeout.
NotRetroactive ==
  \A t \in Tokens :
    (HeldEntry(t) /\ ~UseRedis)
    => LET expired == now - lease[t].at > lease[t].to
       IN  /\ AcquireLocal(t).res = expired
           /\ IsLockedLocal(t).res = ~expired
           /\ (t \in DOMAIN CleanupLocal) = ~expired

\* C6 as amended: set_lock_timeout only stores the new value (no table
\* entry, ownership token or backend key changes at the call), and from then
\* on the local table judges every lease, the ones held at the call too, by
\* the current lock_timeout.
TimeoutAppliesToHeldLeases ==
  [][ /\ lock_timeout' # lock_timeout
           => (_locks' = _locks /\ _lock_values' = _lock_values /\ redis' = redis)
      /\ \A t \in Tokens :
           (HeldEntry(t) /\ ~UseRedis)
           => LET expired == now - lease[t].at > lock_timeout
              IN  /\ AcquireLocal(t).res = expired
                  /\ IsLockedLocal(t).res = ~expired
                  /\ (t \in DOMAIN CleanupLocal) = ~expired ]_vars

\* a held lease for which the timeout it was acquired under and the current
\* one disagree about expiry
TimeoutAppliesWitness ==
  \E t \in Tokens :
    /\ HeldEntry(t)
    /\ ~UseRedis
    /\ (now - lease[t].at > lease[t].to) # (now - lease[t].at > lock_timeout)


\* an attempt that is refused leaves the time of the lease, in the table and
\* at the backend, as it was
RefusedKeepsExpiry ==
  \A t \in Tokens :
    (acquire_lock(t) /\ ~EvRes(Ev("acquire", t, 1)))
      => (_locks' = _locks /\ redis' = redis)

\* C15: liveness by timeout.  When a lease on t granted at time T is never
\* released, time keeps advancing and acquire_lock(t) keeps being attempted,
\* an acquire_lock(t) succeeds at some time after T; the attempts refused
\* in between do not move the lease's expiry.  (T + lock_timeout lies
\* before the last instant of the model's clock.)
LivenessByTimeout ==
  /\ [][RefusedKeepsExpiry]_vars
  /\ \A t \in Tokens, T \in 0..MaxTime :
       ( /\ T + lock_timeout < MaxTime
         /\ \E g \in grants : g.tok = t /\ g.at = T )
         ~> (\E g \in grants : g.tok = t /\ g.at > T)

\* a lease has run out without a release: it is still in the table, no
\* grant is outstanding, and the attempts go to the table
LivenessByTimeoutWitness ==
  \E t \in Tokens :
    /\ t \in DOMAIN _locks
    /\ Expired(_locks[t])
    /\ Outstanding(t, "local") = {}
    /\ Outstanding(t, "redis") = {}
    /\ ~UseRedis

\* release_lock(t) issued by holder c, whose lease on t ran out and was taken
\* over by the holder now recorded, while that holder's lease is live
StaleDistributedRelease(c, t) ==
  /\ release_lock(t)
  /\ owner' = HolderNext(Ev("release", t, c))
  /\ t \in DOMAIN owner
  /\ owner[t].over = c
  /\ owner[t].by # c
  /\ RedisLive(redis, t, now)

\* C16: the ownership token protects the current holder in distributed
\* mode.  With a backend that releases only on a matching ownership token, a
\* release_lock(t) by a holder whose lease on t expired and was re-acquired
\* by a different holder leaves the new holder's lease at the backend, be
\* the new holder the other process or another job of the same manager.
OwnershipProtectsHolder ==
  [][\A c \in Callers, t \in Tokens :
       StaleDistributedRelease(c, t)
         => (t \in DOMAIN redis' /\ redis'[t] = redis[t])]_vars

\* the same, for a new holder in another process only
OwnershipAcrossProcesses ==
  [][\A c \in Callers, t \in Tokens :
       (StaleDistributedRelease(c, t) /\ owner[t].by = OtherProcess)
         => (t \in DOMAIN redis' /\ redis'[t] = redis[t])]_vars

\* the other process holds a live lease it took over from a job of this
\* manager, which still remembers its own ownership token, and the backend
\* is connected
OwnershipAcrossProcessesWitness ==
  \E t \in Tokens :
    /\ t \in DOMAIN owner
    /\ owner[t].by = OtherProcess
    /\ owner[t].over \in Callers
    /\ RedisLive(redis, t, now)
    /\ ReleaseUsesRedis(t)

\* the leases on t this manager granted and has not released, all live
SelfGrants(t) == {g \in grants : g.tok = t /\ g.proc = "self"}

\* C17: release_lock releases in the mode that granted the lease.  When the
\* manager holds one live lease on t and calls release_lock(t), a
\* distributed lease is gone from the backend and its ownership token is
\* forgotten, and a local lease is gone from the table, whatever the
\* backend's reachability is at the release.
ReleaseInGrantingMode ==
  [][\A t \in Tokens :
       ( /\ release_lock(t)
         /\ grants' = GrantsNext(Ev("release", t, 1))
         /\ Cardinality(SelfGrants(t)) = 1 )
       => \A g \in SelfGrants(t) :
            IF g.mode = "redis"
              THEN t \notin DOMAIN redis' /\ t \notin DOMAIN _lock_values'
              ELSE t \notin DOMAIN _locks']_vars

\* the tokens whose local entry is not older than lock_timeout
LiveLocal == {t \in DOMAIN _locks : ~Expired(_locks[t])}

\* C18: expiry is applied wherever the local lock state is read.  Right
\* after a call, with nothing changed since: is_locked(t) in local mode
\* returned true only for a token with a live entry, and
\* get_locked_tokens() returned exactly the tokens with a live entry.
ReadsApplyExpiry ==
  /\ (last.op = "is_locked" /\ last.mode = "local" /\ last.res)
       => last.tok \in LiveLocal
  /\ last.op = "get_locked" => get_locked_tokens = LiveLocal

\* C19: a failed acquire has no side effects.  Whenever acquire_lock(t)
\* returns false, in local or in distributed mode, the lock table (t's
\* recorded time included) and the remembered ownership tokens are what they
\* were before the call.
FailedAcquireNoEffect ==
  [][(last'.op = "acquire" /\ ~last'.res)
       => (_locks' = _locks /\ _lock_values' = _lock_values)]_vars

\* a distributed acquire was just refused for a token whose ownership token
\* the manager remembers, while the local table is not empty either
FailedAcquireNoEffectWitness ==
  /\ last.op = "acquire" /\ ~last.res /\ last.mode = "redis"
  /\ last.tok \in DOMAIN _lock_values
  /\ _locks # EmptyDict

\* C20: in local mode is_locked agrees with acquire_lock.  is_locked(t)
\* returns true exactly when acquire_lock(t), at the same instant and under
\* the same timeout, would return false; it removes t's entry only when the
\* entry is expired, adds nothing and leaves every other token's entry.
IsLockedAgreesWithAcquire ==
  [][\A t \in Tokens :
       (last'.op = "is_locked" /\ last'.tok = t /\ last'.mode = "local")
         => /\ last'.res = ~AcquireLocal(t).res
            /\ IF t \in DOMAIN _locks /\ Expired(_locks[t])
                 THEN _locks' \in {_locks, Remove(_locks, t)}
                 ELSE _locks' = _locks]_vars

\* is_locked(t) in local mode just returned true for an entry whose age is
\* exactly lock_timeout, with another token's expired entry in the table
IsLockedAgreesWithAcquireWitness ==
  /\ last.op = "is_locked" /\ last.mode = "local" /\ last.res
  /\ now - _locks[last.tok] = lock_timeout
  /\ \E u \in DOMAIN _locks : u # last.tok /\ Expired(_locks[u])

\* C21: cleanup_expired_locks removes exactly the expired local entries.
\* After the call no entry older than lock_timeout remains, every entry not
\* older than lock_timeout is there with its time unchanged, nothing is
\* added, and the remembered ownership tokens are as before.
CleanupRemovesExpired ==
  [][last'.op = "cleanup"
       => /\ \A t \in DOMAIN _locks' : now - _locks'[t] <= lock_timeout
          /\ \A t \in DOMAIN _locks :
               now - _locks[t] <= lock_timeout
                 => (t \in DOMAIN _locks' /\ _locks'[t] = _locks[t])
          /\ DOMAIN _locks' \subseteq DOMAIN _locks
          /\ _lock_values' = _lock_values]_vars

\* right after a sweep: an entry whose age is exactly lock_timeout was kept,
\* a token that had been locked has no entry, and an ownership token is
\* remembered
CleanupRemovesExpiredWitness ==
  /\ last.op = "cleanup"
  /\ \E t \in DOMAIN _locks : now - _locks[t] = lock_timeout
  /\ \E u \in everLocked : u \notin DOMAIN _locks
  /\ _lock_values # EmptyDict

\* C23: mutual exclusion survives a change of mode.  While a lease on t
\* that this manager granted in one mode is outstanding and the backend's
\* reachability has changed since, so that calls now go to the other mode,
\* acquire_lock(t) called now does not return true and is_locked(t) does
\* not return false.
ExclusionAcrossModes ==
  \A g \in grants :
    (g.proc = "self" /\ g.mode # EvMode(Ev("acquire", g.tok, 1)))
      => /\ ~EvRes(Ev("acquire", g.tok, 1))
         /\ EvRes(Ev("is_locked", g.tok, 1))

(***************************************************************************)
(* Properties of the storage layer                                         *)
(***************************************************************************)

\* the counts of a call of execute and what it ends with
RetryWithinBounds ==
  \A t \in Tasks :
    method[t] = "execute" =>
      /\ tries[t] <= max_retries[t]
      /\ sleeps[t] <= max_retries[t] - 1
      /\ pc[t] = "done" =>
           (result[t] = "lastrowid" /\ sleeps[t] = tries[t] - 1)
      /\ (pc[t] = "failed" /\ err[t].cls = "OperationalError"
            /\ Retryable(err[t]))
           => (tries[t] = max_retries[t] /\ sleeps[t] = max_retries[t] - 1)

\* C7: bounded retry of SQLiteAdapter.execute.  Every call terminates: it
\* returns or raises; it makes at most max_retries attempts and at most
\* max_retries - 1 backoff waits; when it returns, it returns the result of
\* the one attempt that succeeded, every earlier attempt having been followed
\* by a wait; when it raises a busy/locked error, it has made exactly
\* max_retries attempts.
BoundedRetry ==
  /\ []RetryWithinBounds
  /\ \A t \in Tasks :
       (pc[t] = "lock" /\ method[t] = "execute")
         ~> (pc[t] \in {"done", "failed"})

\* a call with the default max_retries has failed on its fifth busy attempt,
\* after four waits
BoundedRetryWitness ==
  \E t \in Tasks :
    /\ method[t] = "execute"
    /\ max_retries[t] = DefaultMaxRetries
    /\ pc[t] = "failed"
    /\ Retryable(err[t])
    /\ tries[t] = DefaultMaxRetries
    /\ sleeps[t] = DefaultMaxRetries - 1

\* C8: single writer.  Under any interleaving of execute and execute_many
\* calls of one process, at most one task is inside the write critical
\* section (connection, statement, commit), and it is the holder of the
\* write lock.
SingleWriter ==
  /\ Cardinality({t \in Tasks : pc[t] \in InSection}) <= 1
  /\ \A t \in Tasks : pc[t] \in InSection => _write_lock = t
  /\ \A t \in Tasks : conn[t] => pc[t] \in InSection

\* an execute is inside the section with its connection open while an
\* execute_many waits for the lock
SingleWriterWitness ==
  \E t, u \in Tasks :
    /\ pc[t] = "statement" /\ conn[t] /\ method[t] = "execute"
    /\ pc[u] = "lock" /\ method[u] = "execute_many"

\* C9: whenever get_adapter() returns an adapter, that adapter's
\* initialize() has completed; in every other state get_adapter() raises.
GetAdapterOnlyInitialized ==
  (lastCall.op = "get_adapter" /\ ~lastCall.raised) => lastCall.inited

\* C10: after close() every data operation on the adapter raises, and none
\* re-initializes the adapter, until initialize() is called again.
ClosedAdapterFails ==
  (lastCall.op \in DataOps /\ lastCall.wasClosed)
    => (lastCall.raised /\ ~lastCall.reinit)

\* C11: with no close() in between, the setup of initialize() (the probe
\* connection, the creation of the pool) runs at most once on an adapter,
\* however the calls of initialize(), direct or from an operation that
\* initializes by itself, interleave.
InitializeOnce ==
  \A i \in DOMAIN insts : insts[i].setups <= 1

\* C12: table_exists and column_exists never raise; they return false for
\* an object the catalog does not have and whenever the catalog query fails.
IntrospectionNeverRaises ==
  lastCall.op \in IntrospectOps
    => /\ ~lastCall.raised
       /\ (~lastCall.present \/ lastCall.env # "ok") => ~lastCall.res

\* C13: a connection handle is open only while the one operation that
\* opened it is in flight, between the opening of its connection and its
\* exit, and it is released however the operation exits (return, exception,
\* cancellation); with no operation in flight no handle is open.
HandlesScoped ==
  /\ \A t \in Tasks : conn[t] => pc[t] \in {"statement", "commit"}
  /\ (\A t \in Tasks : pc[t] \in {"idle", "done", "failed"})
       => Cardinality({t \in Tasks : conn[t]}) = 0

\* one operation has raised after its handle was open and holds none now,
\* while another operation is in flight with its own handle
HandlesScopedWitness ==
  \E t, u \in Tasks :
    /\ pc[t] = "failed"
    /\ err[t].cls \in {"IntegrityError", "NameError"}
    /\ ~conn[t]
    /\ conn[u]

\* C14: write/read round trip.  A fetchone or fetchall for a key returns,
\* without raising, the value the last successful execute or execute_many
\* wrote under it, as a mapping from the column to the value, and an absent
\* or empty result for a key never written.
RoundTrip ==
  lastIo.op \in {"fetchone", "fetchall"}
    => /\ ~lastIo.raised
       /\ lastIo.res = IF lastIo.key \in DOMAIN written
                         THEN <<[v |-> written[lastIo.key]]>>
                         ELSE <<>>

\* an error of the engine's busy/locked class: another connection holds the
\* database
BusyOrLocked(e) ==
  e.cls = "OperationalError" /\ IsInfix(<<"database", "is", "locked">>, e.msg)

\* an error the engine reports when it cannot get at the database file now:
\* it is locked, or it cannot be opened
LockedOrUnopenable(e) ==
  /\ e.cls = "OperationalError"
  /\ \/ IsInfix(<<"database", "is", "locked">>, e.msg)
     \/ IsInfix(<<"unable", "to", "open">>, e.msg)

\* C22 as stated: only contention errors are retried.  An attempt that raises goes to
\* the backoff wait only in SQLiteAdapter.execute and only on a busy/locked
\* error; any other error is raised to the caller from that attempt, with no
\* wait and no further attempt; execute_many and MySQLAdapter.execute never
\* wait or try again.
OnlyContentionRetried ==
  [][\A t \in Tasks, e \in Errors \cup {NameError} :
       Raise(t, e)
         => /\ pc'[t] = "sleep"
                 => /\ db_type = "sqlite" /\ method[t] = "execute"
                    /\ BusyOrLocked(e)
            /\ ~BusyOrLocked(e)
                 => /\ pc'[t] = "failed" /\ err'[t] = e
                    /\ sleeps' = sleeps /\ tries' = tries]_vars

\* C22 as amended: an attempt that raises goes to the backoff wait only in
\* SQLiteAdapter.execute and only on an OperationalError whose message says
\* the database is locked or cannot be opened; any other error is raised to
\* the caller from that attempt, with no wait and no further attempt;
\* execute_many and MySQLAdapter.execute never wait or try again.
OnlyLockedOrUnopenableRetried ==
  [][\A t \in Tasks, e \in Errors \cup {NameError} :
       Raise(t, e)
         => /\ pc'[t] = "sleep"
                 => /\ db_type = "sqlite" /\ method[t] = "execute"
                    /\ LockedOrUnopenable(e)
            /\ ~LockedOrUnopenable(e)
                 => /\ pc'[t] = "failed" /\ err'[t] = e
                    /\ sleeps' = sleeps /\ tries' = tries]_vars

\* an execute that may retry has raised "no such table" from its first
\* attempt, with no wait, while another execute is in its backoff wait
OnlyLockedOrUnopenableRetriedWitness ==
  \E t, u \in Tasks :
    /\ db_type = "sqlite"
    /\ method[t] = "execute" /\ max_retries[t] > 1
    /\ pc[t] = "failed"
    /\ err[t].cls = "OperationalError" /\ ~LockedOrUnopenable(err[t])
    /\ tries[t] = 1 /\ sleeps[t] = 0
    /\ method[u] = "execute" /\ pc[u] = "sleep"

\* a task in its backoff wait holds neither the write lock nor a connection
GuardFreeInBackoff ==
  \A t \in Tasks : pc[t] = "sleep" => (_write_lock # t /\ ~conn[t])

\* C24: the write guard is not held during backoff.  A task whose execute
\* attempt failed with a busy/locked error has released the write lock and
\* closed its connection before its backoff wait starts, and a writer that
\* waits for the lock while a task is in its backoff wait gets the lock.
GuardNotHeldInBackoff ==
  /\ []GuardFreeInBackoff
  /\ \A u \in Tasks :
       (pc[u] = "lock" /\ \E t \in Tasks : pc[t] = "sleep")
         ~> (_write_lock = u)

\* while an execute is in its backoff wait, an execute_many of another task
\* is inside the critical section with its connection open
GuardNotHeldInBackoffWitness ==
  \E t, u \in Tasks :
    /\ pc[t] = "sleep" /\ method[t] = "execute"
    /\ method[u] = "execute_many" /\ pc[u] = "commit"
    /\ _write_lock = u /\ conn[u]

====
